---- MODULE Spec2Model ----
(***************************************************************************)
(* Knot-vector helpers of nurbstk/knots.h: the two knot-vector builders,   *)
(* the clamping functions, the monotonicity validator and Boehm knot       *)
(* insertion for curves and surfaces.                                      *)
(*                                                                         *)
(* Scalars (the template parameter T) are pairs <<num, den>>: a rational   *)
(* in lowest terms with den > 0, or one of the IEEE specials <<1, 0>>      *)
(* (+Inf), <<-1, 0>> (-Inf), <<0, 0>> (NaN).  The builders are modelled    *)
(* for T = float: every result that the code stores in a T is rounded to   *)
(* MantBits significant bits, ties to even.  The insertion functions use   *)
(* the same scalars with exact arithmetic on finite values, and IEEE       *)
(* results for division by zero.                                           *)
(*                                                                         *)
(* An unsigned int is held by its 32-bit pattern read as two's complement, *)
(* so 4294967295 is -1 and unsigned addition is ordinary addition.         *)
(***************************************************************************)
EXTENDS Integers, Sequences, FiniteSets, TLC

VARIABLES
    kind,       \* what the caller holds: "vector", "curve" or "surface"
    op,         \* the last function called
    degree,     \* its degree argument
    nCtrlPts,   \* its nCtrlPts argument (builders)
    u,          \* its u argument (insertion)
    span,       \* what findSpan returned to it (insertion)
    knots,      \* the knot vector
    cp,         \* the control points: a sequence (curve) or a grid (surface)
    ret,        \* what the call returned: "true", "false" or "void"
    prevKnots,  \* the knot vector before the call
    prevCP,     \* the control points before the call
    denoms,     \* the denominators the call's blend loop divided by
    nCalls      \* calls made so far

vars == <<kind, op, degree, nCtrlPts, u, span, knots, cp, ret,
          prevKnots, prevCP, denoms, nCalls>>

(***************************************************************************)
(* Bounds of the model.                                                    *)
(***************************************************************************)
MaxDegree == 3
MaxCtrlPts == 9
MaxBuilds == 2
MaxLen == 5
MaxCalls == 2

(***************************************************************************)
(* Scalar arithmetic.                                                      *)
(***************************************************************************)
Abs(x) == IF x < 0 THEN -x ELSE x

Sgn(x) == IF x < 0 THEN -1 ELSE IF x > 0 THEN 1 ELSE 0

RECURSIVE GCD(_, _)
GCD(a, b) == IF b = 0 THEN a ELSE GCD(b, a % b)

Norm(n, d) ==
    IF d = 0 THEN <<Sgn(n), 0>>
    ELSE LET g == GCD(Abs(n), Abs(d))
             s == IF d < 0 THEN -1 ELSE 1
         IN  <<(s * n) \div g, (s * d) \div g>>

R(n) == <<n, 1>>

Q(n, d) == Norm(n, d)

Zero == R(0)

One == R(1)

NaN == <<0, 0>>

IsNaN(a) == a = NaN

Neg(a) == <<-a[1], a[2]>>

\* The least common denominator of two finite scalars.
LCD(a, b) == (a[2] \div GCD(a[2], b[2])) * b[2]

Add(a, b) ==
    IF a[2] = 0 \/ b[2] = 0
    THEN IF a[2] = 0 /\ a = b THEN a
         ELSE Norm(a[1] * b[2] + b[1] * a[2], 0)
    ELSE LET l == LCD(a, b)
         IN  Norm(a[1] * (l \div a[2]) + b[1] * (l \div b[2]), l)

Sub(a, b) == Add(a, Neg(b))

Mul(a, b) == Norm(a[1] * b[1], a[2] * b[2])

Div(a, b) ==
    LET s == IF b[1] < 0 THEN -1 ELSE 1
    IN  Norm(s * a[1] * b[2], s * a[2] * b[1])

\* a < b and a <= b as IEEE compares them: false when either is NaN.
Lt(a, b) ==
    /\ ~IsNaN(a) /\ ~IsNaN(b) /\ a # b
    /\ IF a[2] = 0 THEN a[1] < 0
       ELSE IF b[2] = 0 THEN b[1] > 0
       ELSE LET l == LCD(a, b)
            IN  a[1] * (l \div a[2]) < b[1] * (l \div b[2])

Leq(a, b) == ~IsNaN(a) /\ ~IsNaN(b) /\ (a = b \/ Lt(a, b))

(***************************************************************************)
(* Rounding to T = float (round to nearest, ties to even).                 *)
(***************************************************************************)
MantBits == 24

CeilDiv(a, b) == (a + b - 1) \div b

\* a / b rounded to the nearest integer, ties to even (a >= 0, b > 0).
RDiv(a, b) ==
    LET q == a \div b
        r == a % b
    IN  IF 2 * r > b \/ (2 * r = b /\ q % 2 = 1) THEN q + 1 ELSE q

\* The binary exponent e of a finite x = n / d > 0: 2^e <= x < 2^(e+1), for
\* the magnitudes the builders produce (2^-6 <= x < 4).
Exponent(n, d) ==
    CHOOSE e \in -6..1 :
        IF e <= 0
        THEN /\ CeilDiv(d, 2^(-e)) <= n
             /\ n < CeilDiv(2 * d, 2^(-e))
        ELSE /\ (2^e) * d <= n
             /\ n < (2^(e + 1)) * d

RoundT(x) ==
    IF x[2] = 0 \/ x[1] = 0 THEN x
    ELSE LET n == Abs(x[1])
             d == x[2]
             s == (MantBits - 1) - Exponent(n, d)
             q == IF d % (2^s) = 0 THEN RDiv(n, d \div (2^s))
                  ELSE IF (2^s) % d = 0 THEN n * ((2^s) \div d)
                  ELSE RDiv(n * (2^s), d)
         IN  Norm(Sgn(x[1]) * q, 2^s)

(***************************************************************************)
(* isKnotVectorMonotonic: std::is_sorted, no adjacent pair with            *)
(* knots[i+1] < knots[i].                                                  *)
(***************************************************************************)
isKnotVectorMonotonic(k) ==
    \A i \in 1..(Len(k) - 1) : ~Lt(k[i + 1], k[i])

(***************************************************************************)
(* Unsigned int arithmetic on 32-bit patterns.                             *)
(***************************************************************************)
UIntMax == -1

\* (size_t) n < (unsigned) x, for 0 <= n < 2^31: a pattern with the top bit
\* set is an unsigned value of at least 2^31.
SizeLtUInt(n, x) == IF x < 0 THEN TRUE ELSE n < x

\* The guard of both builders: nCtrlPts < degree + 1, with degree + 1
\* computed in unsigned int (4294967295 + 1 wraps to 0).
TooFewCtrlPts(d, n) == SizeLtUInt(n, d + 1)

\* int nKnots = nCtrlPts + degree + 1: the low 32 bits of the size_t sum.
NumKnots(d, n) == n + d + 1

(***************************************************************************)
(* makeUniformKnotVector, lines 26-31: step in T, then u accumulates.      *)
(***************************************************************************)
RECURSIVE UniformLoop(_, _, _)
UniformLoop(x, step, acc) ==
    IF Leq(x, One)
    THEN UniformLoop(RoundT(Add(x, step)), step, Append(acc, x))
    ELSE acc

UniformStep(nKnots) == RoundT(Div(One, R(nKnots - 1)))

UniformKnots(d, n) == UniformLoop(Zero, UniformStep(NumKnots(d, n)), <<>>)

\* The loop ends only if step > 0 (or is +Inf); with nKnots <= 0 the step is
\* negative and u <= 1.0 stays true until memory is exhausted.
UniformReturns(d, n) ==
    TooFewCtrlPts(d, n) \/ NumKnots(d, n) >= 1

(***************************************************************************)
(* makeClampedUniformKnotVector, lines 43-66.                              *)
(***************************************************************************)
Fill(count, v) == [i \in 1..count |-> v]

NumIntKnots(d, n) == NumKnots(d, n) - 2 * d

\* Interior knot i: static_cast<double>(i) * step with step = 1.0 /
\* (nIntKnots - 1) in double, stored in a float.  For nIntKnots <= 40 the
\* stored float is the float nearest to i / (nIntKnots - 1).
InteriorKnot(i, nInt) == RoundT(Div(R(i), R(nInt - 1)))

InteriorKnots(nInt) ==
    IF nInt > 0 THEN [i \in 1..nInt |-> InteriorKnot(i - 1, nInt)] ELSE <<>>

ClampedUniformKnots(d, n) ==
    Fill(d, Zero) \o InteriorKnots(NumIntKnots(d, n)) \o Fill(d, One)

(***************************************************************************)
(* The builders as operations on the caller's vector.                      *)
(***************************************************************************)
Degrees == 0..MaxDegree

BuildInit ==
    /\ kind = "vector"
    /\ op = "init"
    /\ degree = 0
    /\ nCtrlPts = 0
    /\ u = Zero
    /\ span = 0
    /\ knots = <<>>
    /\ cp = <<>>
    /\ ret = "none"
    /\ prevKnots = <<>>
    /\ prevCP = <<>>
    /\ denoms = <<>>
    /\ nCalls = 0

makeUniformKnotVector(d, n) ==
    /\ nCalls < MaxBuilds
    /\ UniformReturns(d, n)
    /\ op' = "makeUniformKnotVector"
    /\ degree' = d
    /\ nCtrlPts' = n
    /\ prevKnots' = knots
    /\ nCalls' = nCalls + 1
    /\ IF TooFewCtrlPts(d, n)
       THEN ret' = "false" /\ knots' = knots
       ELSE ret' = "true" /\ knots' = UniformKnots(d, n)
    /\ UNCHANGED <<kind, u, span, cp, prevCP, denoms>>

makeClampedUniformKnotVector(d, n) ==
    /\ nCalls < MaxBuilds
    /\ op' = "makeClampedUniformKnotVector"
    /\ degree' = d
    /\ nCtrlPts' = n
    /\ prevKnots' = knots
    /\ nCalls' = nCalls + 1
    /\ IF TooFewCtrlPts(d, n)
       THEN ret' = "false" /\ knots' = knots
       ELSE ret' = "true" /\ knots' = ClampedUniformKnots(d, n)
    /\ UNCHANGED <<kind, u, span, cp, prevCP, denoms>>

\* makeClampedUniformKnotVector is called with the degrees whose fill loops
\* (i < degree, i an int) end: with degree = 4294967295 the loop runs past
\* INT_MAX.
BuildNext ==
    \/ \E d \in Degrees \cup {UIntMax}, n \in 0..MaxCtrlPts :
           makeUniformKnotVector(d, n)
    \/ \E d \in Degrees, n \in 0..MaxCtrlPts :
           makeClampedUniformKnotVector(d, n)

SpecBuild == BuildInit /\ [][BuildNext]_vars

(***************************************************************************)
(* clampKnotVectorLeft, clampKnotVectorRight, clampKnotVector.  Indices in *)
(* the source are 0-based, sequences here 1-based.                         *)
(***************************************************************************)
\* A clampKnotVectorLeft that reads its start value from knots[0].
ClampLeftFromFront(d, k) ==
    LET start == k[1]
    IN  [i \in 1..Len(k) |-> IF i <= d THEN start ELSE k[i]]

ClampLeft(d, k) ==
    LET start == k[d + 1]
    IN  [i \in 1..Len(k) |-> IF i <= d THEN start ELSE k[i]]

ClampRight(d, k) ==
    LET end == k[Len(k) - d]
    IN  [i \in 1..Len(k) |-> IF i > Len(k) - d THEN end ELSE k[i]]

Clamp(d, k) == ClampRight(d, ClampLeft(d, k))

ClampValues == {R(0), Q(1, 2), R(1)}

RECURSIVE SeqsOfLen(_, _)
SeqsOfLen(S, n) ==
    IF n = 0 THEN {<<>>}
    ELSE {Append(q, x) : q \in SeqsOfLen(S, n - 1), x \in S}

ClampInit ==
    /\ kind = "vector"
    /\ op = "init"
    /\ degree = 0
    /\ nCtrlPts = 0
    /\ u = Zero
    /\ span = 0
    /\ knots \in UNION {SeqsOfLen(ClampValues, n) : n \in 1..MaxLen}
    /\ cp = <<>>
    /\ ret = "none"
    /\ prevKnots = knots
    /\ prevCP = <<>>
    /\ denoms = <<>>
    /\ nCalls = 0

\* knots[degree] and knots[size - degree - 1] are elements of the vector
\* only if degree < size; the calls modelled are those.
ClampCall(name, d, result) ==
    /\ d < Len(knots)
    /\ op' = name
    /\ degree' = d
    /\ prevKnots' = knots
    /\ knots' = result
    /\ ret' = "void"
    /\ UNCHANGED <<kind, nCtrlPts, u, span, cp, prevCP, denoms, nCalls>>

clampKnotVectorLeft(d) == ClampCall("clampKnotVectorLeft", d, ClampLeft(d, knots))

clampKnotVectorRight(d) == ClampCall("clampKnotVectorRight", d, ClampRight(d, knots))

clampKnotVector(d) == ClampCall("clampKnotVector", d, Clamp(d, knots))

ClampNext ==
    \E d \in Degrees :
        \/ clampKnotVectorLeft(d)
        \/ clampKnotVectorRight(d)
        \/ clampKnotVector(d)

SpecClamp == ClampInit /\ [][ClampNext]_vars

(***************************************************************************)
(* Control points: glm::vec<T, n>, a tuple of n scalars.                   *)
(***************************************************************************)
VAdd(p, q) == [c \in DOMAIN p |-> Add(p[c], q[c])]

VScale(a, p) == [c \in DOMAIN p |-> Mul(a, p[c])]

\* tvecn(0.0)
ZeroVec(dim) == [c \in 1..dim |-> Zero]

\* (1 - a) * p + a * q
Blend(a, p, q) == VAdd(VScale(Sub(One, a), p), VScale(a, q))

(***************************************************************************)
(* findSpan is called by knots.h and defined elsewhere in the toolkit.     *)
(* It returns the index span with knots[span] <= u < knots[span + 1],      *)
(* the last valid span when u is at or beyond the end of the domain; the   *)
(* valid spans are degree .. n, n the index of the last control point.     *)
(* Where no index qualifies, or several do, any of them may be returned.   *)
(***************************************************************************)
At(k, i) == k[i + 1]

LastSpan(deg, k) == Len(k) - deg - 2

InSpan(uu, s, k) == Leq(At(k, s), uu) /\ Lt(uu, At(k, s + 1))

findSpan(uu, deg, k) ==
    LET n == LastSpan(deg, k)
        S == {s \in deg..n : InSpan(uu, s, k)}
    IN  IF Leq(At(k, n + 1), uu) THEN {n}
        ELSE IF S # {} THEN S
        ELSE deg..n

(***************************************************************************)
(* curveInsertKnot, lines 111-119.  std::vector::insert at position span   *)
(* puts the new element at index span and moves the elements from span on  *)
(* up by one.                                                              *)
(***************************************************************************)
InsertAt(q, i, v) == SubSeq(q, 1, i) \o <<v>> \o SubSeq(q, i + 1, Len(q))

\* knots.insert(span, u)
InsertKnot(k, s, uu) == InsertAt(k, s, uu)

\* A cp.insert that assigns the placeholder to cp[span] and inserts nothing.
AssignCtrlPt(c, s) == [c EXCEPT ![s + 1] = ZeroVec(Len(c[1]))]

\* cp.insert(span, tvecn(0.0))
InsertCtrlPt(c, s) == InsertAt(c, s, ZeroVec(Len(c[1])))

\* knots[i + deg] - knots[i], on the knot vector the loop reads
CurveDenom(i, deg, k) == Sub(At(k, i + deg), At(k, i))

\* T a = (u - knots[i]) / (knots[i + deg] - knots[i])
CurveAlpha(i, uu, deg, k) == Div(Sub(uu, At(k, i)), CurveDenom(i, deg, k))

\* The loop of lines 116-119 from index i on: cp[i] is overwritten in place,
\* so step i + 1 reads the cp[i] that step i wrote.
RECURSIVE CurveBlendLoop(_, _, _, _, _, _)
CurveBlendLoop(i, s, uu, deg, k, c) ==
    IF i > s THEN c
    ELSE CurveBlendLoop(i + 1, s, uu, deg, k,
             [c EXCEPT ![i + 1] =
                 Blend(CurveAlpha(i, uu, deg, k), At(c, i - 1), At(c, i))])

\* The control points curveInsertKnot leaves, given the span.
CurveInsertCP(uu, deg, k, c, s) ==
    CurveBlendLoop(s - deg + 1, s, uu, deg, InsertKnot(k, s, uu),
                   InsertCtrlPt(c, s))

CurveDenoms(uu, deg, k, s) ==
    [j \in 1..deg |-> CurveDenom(s - deg + j, deg, InsertKnot(k, s, uu))]

(***************************************************************************)
(* surfaceInsertKnotU, lines 124-136: i is the row, j the index in the row.*)
(***************************************************************************)
\* knots[i + deg] - knots[j]
SurfaceDenom(i, j, deg, k) == Sub(At(k, i + deg), At(k, j))

\* T a = (u - knots[i]) / (knots[i + deg] - knots[j])
SurfaceAlpha(i, j, uu, deg, k) ==
    Div(Sub(uu, At(k, i)), SurfaceDenom(i, j, deg, k))

RECURSIVE SurfaceBlendLoop(_, _, _, _, _, _, _)
SurfaceBlendLoop(i, j, s, uu, deg, k, row) ==
    IF j > s THEN row
    ELSE SurfaceBlendLoop(i, j + 1, s, uu, deg, k,
             [row EXCEPT ![j + 1] =
                 Blend(SurfaceAlpha(i, j, uu, deg, k),
                       At(row, j - 1), At(row, j))])

\* The grid surfaceInsertKnotU leaves, given the span.
SurfaceInsertCP(uu, deg, k, c, s) ==
    [r \in 1..Len(c) |->
        SurfaceBlendLoop(r - 1, s - deg + 1, s, uu, deg,
                         InsertKnot(k, s, uu), InsertCtrlPt(c[r], s))]

SurfaceDenoms(uu, deg, k, c, s) ==
    [r \in 1..Len(c) |->
        [j \in 1..deg |->
            SurfaceDenom(r - 1, s - deg + j, deg, InsertKnot(k, s, uu))]]

(***************************************************************************)
(* The curves and surfaces insertion starts from: clamped knot vectors     *)
(* with numKnots = numControlPoints + degree + 1.                          *)
(***************************************************************************)
Pt(x, y) == <<R(x), R(y)>>

Half == Q(1, 2)

ScenarioKnots == <<Zero, Zero, Zero, Half, One, One, One>>

ScenarioCP == <<Pt(0, 0), Pt(1, 2), Pt(3, 3), Pt(4, 0)>>

Curves ==
    { [deg |-> 2, knots |-> ScenarioKnots, cp |-> ScenarioCP],
      [deg |-> 1, knots |-> <<Zero, Zero, Half, One, One>>,
       cp |-> <<Pt(0, 0), Pt(2, 2), Pt(4, 0)>>],
      [deg |-> 2, knots |-> <<Zero, Zero, Zero, One, One, One>>,
       cp |-> <<Pt(0, 0), Pt(2, 4), Pt(4, 0)>>],
      [deg |-> 3, knots |-> <<Zero, Zero, Zero, Zero, One, One, One, One>>,
       cp |-> <<Pt(0, 0), Pt(1, 3), Pt(3, 3), Pt(4, 0)>>] }

Surfaces ==
    { [deg |-> 1, knots |-> <<Zero, Zero, Half, One, One>>,
       cp |-> << <<Pt(0, 0), Pt(2, 2), Pt(4, 0)>>,
                 <<Pt(0, 1), Pt(2, 3), Pt(4, 1)>> >>],
      [deg |-> 2, knots |-> ScenarioKnots,
       cp |-> << ScenarioCP,
                 <<Pt(0, 1), Pt(1, 3), Pt(3, 4), Pt(4, 1)>>,
                 <<Pt(0, 2), Pt(1, 4), Pt(3, 5), Pt(4, 2)>> >>] }

\* The values of u: below, inside, on the knots of, and above the domain.
UValues == {Q(-1, 2), Zero, Q(1, 4), Half, Q(3, 4), One, Q(3, 2)}

InsertInit ==
    /\ op = "init"
    /\ nCtrlPts = 0
    /\ u = Zero
    /\ span = 0
    /\ ret = "none"
    /\ denoms = <<>>
    /\ nCalls = 0
    /\ \/ \E e \in Curves :
             kind = "curve" /\ degree = e.deg /\ knots = e.knots /\ cp = e.cp
       \/ \E e \in Surfaces :
             kind = "surface" /\ degree = e.deg /\ knots = e.knots /\ cp = e.cp
    /\ prevKnots = knots
    /\ prevCP = cp

curveInsertKnot(uu) ==
    /\ kind = "curve"
    /\ nCalls < MaxCalls
    /\ \E s \in findSpan(uu, degree, knots) :
           /\ span' = s
           /\ knots' = InsertKnot(knots, s, uu)
           /\ cp' = CurveInsertCP(uu, degree, knots, cp, s)
           /\ denoms' = CurveDenoms(uu, degree, knots, s)
    /\ op' = "curveInsertKnot"
    /\ u' = uu
    /\ ret' = "void"
    /\ prevKnots' = knots
    /\ prevCP' = cp
    /\ nCalls' = nCalls + 1
    /\ UNCHANGED <<kind, degree, nCtrlPts>>

surfaceInsertKnotU(uu) ==
    /\ kind = "surface"
    /\ nCalls < MaxCalls
    /\ \E s \in findSpan(uu, degree, knots) :
           /\ span' = s
           /\ knots' = InsertKnot(knots, s, uu)
           /\ cp' = SurfaceInsertCP(uu, degree, knots, cp, s)
           /\ denoms' = SurfaceDenoms(uu, degree, knots, cp, s)
    /\ op' = "surfaceInsertKnotU"
    /\ u' = uu
    /\ ret' = "void"
    /\ prevKnots' = knots
    /\ prevCP' = cp
    /\ nCalls' = nCalls + 1
    /\ UNCHANGED <<kind, degree, nCtrlPts>>

InsertNext ==
    \E uu \in UValues :
        \/ curveInsertKnot(uu)
        \/ surfaceInsertKnotU(uu)

SpecInsert == InsertInit /\ [][InsertNext]_vars

(***************************************************************************)
(* Properties.                                                             *)
(***************************************************************************)
Builders == {"makeUniformKnotVector", "makeClampedUniformKnotVector"}

Inserters == {"curveInsertKnot", "surfaceInsertKnotU"}

\* nCtrlPts < degree + 1 over the integers, degree an unsigned int pattern.
FewerThanDegreePlusOne(n, d) == IF d < 0 THEN TRUE ELSE n < d + 1

\* C1: for every degree d >= 0 and nCtrlPts >= d + 1, either builder returns
\* true and leaves exactly nCtrlPts + d + 1 knots, in non-decreasing order.
C1_BuildersGiveAllKnots ==
    (op \in Builders /\ ~FewerThanDegreePlusOne(nCtrlPts, degree))
        => /\ ret = "true"
           /\ Len(knots) = nCtrlPts + degree + 1
           /\ isKnotVectorMonotonic(knots)

\* C6: for every degree d and nCtrlPts < d + 1, either builder returns false
\* and leaves the output vector as it was before the call.
C6_TooFewCtrlPtsFails ==
    (op \in Builders /\ FewerThanDegreePlusOne(nCtrlPts, degree))
        => /\ ret = "false"
           /\ knots = prevKnots

\* C7: on a knot vector longer than 2 * degree, clampKnotVectorLeft keeps
\* the length, replaces entries 0 .. degree - 1 by the old value at index
\* degree and leaves every entry from index degree on unchanged; the first
\* degree + 1 values are then equal.
C7_ClampLeftFrame ==
    (op = "clampKnotVectorLeft" /\ Len(prevKnots) > 2 * degree)
        => /\ Len(knots) = Len(prevKnots)
           /\ \A i \in 0..(Len(knots) - 1) :
                  At(knots, i) = IF i < degree THEN At(prevKnots, degree)
                                              ELSE At(prevKnots, i)
           /\ \A i \in 0..degree : At(knots, i) = At(knots, 0)

C7_Witness ==
    /\ op = "clampKnotVectorLeft"
    /\ degree = 2
    /\ Len(prevKnots) > 2 * degree
    /\ At(prevKnots, 0) # At(prevKnots, 2)
    /\ At(knots, 0) = At(prevKnots, 2)

OutOfDomain(uu, k) == Lt(uu, k[1]) \/ Lt(k[Len(k)], uu)

\* C2: numKnots = numControlPoints + degree + 1 holds after every sequence
\* of insertions, and each call grows the knot vector by one element and
\* the control points (every row of the grid, for a surface) by one.
C2_CountRelationKept ==
    /\ kind = "curve" => Len(knots) = Len(cp) + degree + 1
    /\ kind = "surface" =>
           \A r \in 1..Len(cp) : Len(knots) = Len(cp[r]) + degree + 1
    /\ op \in Inserters => Len(knots) = Len(prevKnots) + 1
    /\ op = "curveInsertKnot" => Len(cp) = Len(prevCP) + 1
    /\ op = "surfaceInsertKnotU" =>
           /\ Len(cp) = Len(prevCP)
           /\ \A r \in 1..Len(cp) : Len(cp[r]) = Len(prevCP[r]) + 1

C2_Witness ==
    /\ op = "curveInsertKnot"
    /\ nCalls = 2
    /\ ~OutOfDomain(u, prevKnots)
    /\ Len(knots) = Len(prevKnots) + 1
    /\ Len(cp) = Len(prevCP) + 1

\* C3: on a non-decreasing knot vector, with knots[span] <= u <
\* knots[span + 1], an insertion places u immediately after index span and
\* the knot vector is non-decreasing after the call.
C3_KnotsStayMonotonic ==
    (op \in Inserters /\ isKnotVectorMonotonic(prevKnots)
        /\ InSpan(u, span, prevKnots))
        => /\ knots = InsertAt(prevKnots, span + 1, u)
           /\ isKnotVectorMonotonic(knots)

\* C4: curveInsertKnot with u outside [knots.front(), knots.back()] reports
\* OutOfDomain and leaves the knot vector and the control points unchanged.
C4_OutOfDomainRejected ==
    (op = "curveInsertKnot" /\ OutOfDomain(u, prevKnots))
        => /\ ret = "OutOfDomain"
           /\ knots = prevKnots
           /\ cp = prevCP

\* The B-spline basis function N(i, p) at t (Cox-de Boor, 0 / 0 taken as 0)
\* and the point of the curve at t.
RECURSIVE BasisN(_, _, _, _)
BasisN(i, p, t, k) ==
    IF p = 0
    THEN IF InSpan(t, i, k) THEN One ELSE Zero
    ELSE LET left == IF At(k, i + p) = At(k, i) THEN Zero
                     ELSE Mul(Div(Sub(t, At(k, i)),
                                  Sub(At(k, i + p), At(k, i))),
                              BasisN(i, p - 1, t, k))
             right == IF At(k, i + p + 1) = At(k, i + 1) THEN Zero
                      ELSE Mul(Div(Sub(At(k, i + p + 1), t),
                                   Sub(At(k, i + p + 1), At(k, i + 1))),
                               BasisN(i + 1, p - 1, t, k))
         IN  Add(left, right)

RECURSIVE CurveSum(_, _, _, _, _)
CurveSum(i, deg, k, c, t) ==
    IF i < 0 THEN ZeroVec(Len(c[1]))
    ELSE VAdd(CurveSum(i - 1, deg, k, c, t),
              VScale(BasisN(i, deg, t, k), At(c, i)))

CurvePoint(deg, k, c, t) == CurveSum(Len(c) - 1, deg, k, c, t)

SamplePoints == {Q(1, 10), Q(1, 4), Q(3, 4), Q(9, 10)}

\* C5: inserting u = 0.5 into the degree-2 curve with control points (0,0),
\* (1,2), (3,3), (4,0) and knots [0,0,0,0.5,1,1,1] gives the knots
\* [0,0,0,0.5,0.5,1,1,1] and 5 control points, the first (0,0), the last
\* (4,0), and a curve with the same points at u = 0.1, 0.25, 0.75, 0.9.
C5_ScenarioShapeKept ==
    (op = "curveInsertKnot" /\ nCalls = 1 /\ degree = 2 /\ u = Half
        /\ prevKnots = ScenarioKnots /\ prevCP = ScenarioCP)
        => /\ knots = <<Zero, Zero, Zero, Half, Half, One, One, One>>
           /\ Len(cp) = 5
           /\ cp[1] = Pt(0, 0)
           /\ cp[5] = Pt(4, 0)
           /\ \A t \in SamplePoints :
                  CurvePoint(degree, knots, cp, t)
                      = CurvePoint(degree, prevKnots, prevCP, t)

\* a_i = (u - oldKnots[i]) / (oldKnots[i + deg] - oldKnots[i])
BoehmAlpha(i, uu, deg, k) ==
    Div(Sub(uu, At(k, i)), Sub(At(k, i + deg), At(k, i)))

\* C8: after curveInsertKnot on a valid curve, with knots[span] <= u <
\* knots[span + 1], control point i in span - deg + 1 .. span is
\* (1 - a_i) * oldCP[i - 1] + a_i * oldCP[i]; those below are unchanged and
\* those above span are the old ones one index up.
C8_BoehmBlend ==
    (op = "curveInsertKnot" /\ isKnotVectorMonotonic(prevKnots)
        /\ Len(prevKnots) = Len(prevCP) + degree + 1
        /\ InSpan(u, span, prevKnots))
        => /\ Len(cp) = Len(prevCP) + 1
           /\ \A i \in 0..(Len(cp) - 1) :
                  At(cp, i) =
                      IF i < span - degree + 1 THEN At(prevCP, i)
                      ELSE IF i <= span
                      THEN Blend(BoehmAlpha(i, u, degree, prevKnots),
                                 At(prevCP, i - 1), At(prevCP, i))
                      ELSE At(prevCP, i - 1)

\* C9: every row surfaceInsertKnotU leaves is what curveInsertKnot leaves
\* when run on that row alone with the same u, degree and knot vector, and
\* the shared knot vector is updated once to the same result.
C9_SurfaceIsRowwiseCurve ==
    (op = "surfaceInsertKnotU" /\ isKnotVectorMonotonic(prevKnots)
        /\ ~OutOfDomain(u, prevKnots))
        => /\ knots = InsertKnot(prevKnots, span, u)
           /\ \A r \in 1..Len(cp) :
                  cp[r] = CurveInsertCP(u, degree, prevKnots, prevCP[r], span)

Multiplicity(uu, k) == Cardinality({i \in 1..Len(k) : k[i] = uu})

IsClamped(deg, k) ==
    /\ \A i \in 0..deg : At(k, i) = At(k, 0)
    /\ \A i \in 0..deg : At(k, Len(k) - 1 - i) = At(k, Len(k) - 1)

\* C10: on a valid clamped non-decreasing knot vector of degree >= 1, with
\* knots[span] <= u < knots[span + 1] and u not already a knot of
\* multiplicity >= degree, no denominator the blend loop of curveInsertKnot
\* divides by is zero.
C10_NoZeroDenominator ==
    (op = "curveInsertKnot" /\ degree >= 1
        /\ isKnotVectorMonotonic(prevKnots) /\ IsClamped(degree, prevKnots)
        /\ Len(prevKnots) = Len(prevCP) + degree + 1
        /\ InSpan(u, span, prevKnots)
        /\ Multiplicity(u, prevKnots) < degree)
        => \A j \in 1..Len(denoms) : denoms[j] # Zero

====
